---- MODULE Spec2Model ----
(***************************************************************************)
(* server-compile: push a LaTeX project folder to a build server, run      *)
(* latexmk there over ssh, pull the results back and repair the paths in   *)
(* the pulled <stem>.synctex.gz.                                           *)
(*                                                                         *)
(* Strings are sequences of one-character strings.  Three specifications:  *)
(*   Spec        the driver main() with its phases and the file trees      *)
(*   SpecRepair  sanitize_synctex applied once and twice to a gzip text    *)
(*   SpecPath    Filepath_info applied to an absolute path                 *)
(***************************************************************************)
EXTENDS Integers, Sequences, FiniteSets, TLC

VARIABLES
    \* ---- main() ----
    pc,            \* position of main(): start, forward, build, back, repair_read, repair_write, exit
    exitCode,      \* process exit status, -1 while running
    servername,    \* args.servername (<<>> stands for None: --server not given)
    argpath,       \* args.filepath
    cwd,           \* working directory of the process
    fp,            \* Filepath_info(args.filepath)
    fs,            \* local file tree: path -> content
    rfs,           \* remote file tree: path -> content
    newlines,      \* sanitize_synctex: the list newlines
    phases,        \* history: the phases run so far, with their status
    localWrites,   \* history: local paths written by the program
    backCopied,    \* history: names transferred by sync_back
    repairWrites,  \* history: local paths written by sanitize_synctex
    fsAfterBack,   \* history: local tree when sanitize_synctex was entered
    donePrinted,   \* "Done! Exiting :)" was printed
    \* ---- sanitize_synctex on its own ----
    gzOrig,        \* decompressed text of the file before any repair
    gzOnce,        \* decompressed text after the first repair
    gzText,        \* decompressed text of the file now
    curDir,        \* current_directory
    runs,          \* number of times sanitize_synctex has run
    \* ---- Filepath_info on its own ----
    pth,           \* the path given to Filepath_info
    info,          \* the resulting object
    built          \* Filepath_info.__init__ has run

mainVars == <<pc, exitCode, servername, argpath, cwd, fp, fs, rfs, newlines,
              phases, localWrites, backCopied, repairWrites, fsAfterBack, donePrinted>>
repVars  == <<gzOrig, gzOnce, gzText, curDir, runs>>
pathVars == <<pth, info, built>>
vars     == <<mainVars, repVars, pathVars>>

----------------------------------------------------------------------------
(* Bounds *)
MaxTokens  == 5      \* tokens in a generated mapping file
MaxPathLen == 5      \* characters in a generated document path

----------------------------------------------------------------------------
(* Program constants *)
SERVER_TARGET_DIR == <<"/", "t", "m", "p">>
SEP     == "/"
EXTSEP  == "."
NEWLINE == "\n"
DOTDOT  == <<".", ".">>
SYNCTEX_SUFFIX == <<".", "s", "y", "n", "c", "t", "e", "x", ".", "g", "z">>

----------------------------------------------------------------------------
(* String primitives used by the source: slicing, rfind, startswith,       *)
(* rstrip, split, join, replace.                                           *)

Slice(s, i, j) == IF j < i THEN <<>> ELSE SubSeq(s, i, j)

\* s.startswith(t, i-1) with 1-based i
StartsWithAt(s, i, t) ==
    /\ i + Len(t) - 1 <= Len(s)
    /\ \A k \in 1..Len(t) : s[i + k - 1] = t[k]

\* s.rfind(c) + 1 : 1-based index of the last c, 0 when there is none
RFind(s, c) ==
    LET hits == {i \in 1..Len(s) : s[i] = c}
    IN  IF hits = {} THEN 0 ELSE CHOOSE i \in hits : \A j \in hits : j <= i

AllSep(s) == \A i \in 1..Len(s) : s[i] = SEP

\* s.rstrip('/')
RStripSep(s) ==
    LET keep == {i \in 1..Len(s) : s[i] # SEP}
    IN  IF keep = {} THEN <<>>
        ELSE Slice(s, 1, CHOOSE i \in keep : \A j \in keep : j <= i)

RECURSIVE SplitFrom(_, _, _)
SplitFrom(s, c, i) ==
    LET later == {k \in i..Len(s) : s[k] = c}
    IN  IF later = {} THEN <<Slice(s, i, Len(s))>>
        ELSE LET k == CHOOSE x \in later : \A y \in later : x <= y
             IN  <<Slice(s, i, k - 1)>> \o SplitFrom(s, c, k + 1)

\* s.split(c)
StrSplit(s, c) == SplitFrom(s, c, 1)

RECURSIVE StrJoin(_, _)
\* c.join(comps)
StrJoin(comps, c) ==
    IF comps = <<>> THEN <<>>
    ELSE IF Len(comps) = 1 THEN comps[1]
    ELSE comps[1] \o <<c>> \o StrJoin(Tail(comps), c)

RECURSIVE ReplaceFrom(_, _, _, _)
ReplaceFrom(s, i, old, new) ==
    IF i > Len(s) THEN <<>>
    ELSE IF StartsWithAt(s, i, old)
         THEN new \o ReplaceFrom(s, i + Len(old), old, new)
         ELSE <<s[i]>> \o ReplaceFrom(s, i + 1, old, new)

\* only the first occurrence is replaced
StrReplace_first(s, old, new) ==
    LET hits == {i \in 1..Len(s) : StartsWithAt(s, i, old)}
    IN  IF hits = {} THEN s
        ELSE LET i == CHOOSE x \in hits : \A y \in hits : x <= y
             IN  Slice(s, 1, i - 1) \o new \o Slice(s, i + Len(old), Len(s))

\* s.replace(old, new) for a non-empty old: leftmost, non-overlapping
StrReplace(s, old, new) == ReplaceFrom(s, 1, old, new)

----------------------------------------------------------------------------
(* posixpath: split, splitext, join, normpath                              *)

\* tail starts at the last separator instead of after it
os_split_offbyone(p) ==
    LET i    == RFind(p, SEP)
        head == Slice(p, 1, i - 1)
        tail == Slice(p, IF i = 0 THEN 1 ELSE i, Len(p))
    IN  <<IF head # <<>> /\ ~AllSep(head) THEN RStripSep(head) ELSE head, tail>>

\* os.path.split(p) = <<head, tail>>
os_split(p) ==
    LET i    == RFind(p, SEP)
        head == Slice(p, 1, i)
        tail == Slice(p, i + 1, Len(p))
    IN  <<IF head # <<>> /\ ~AllSep(head) THEN RStripSep(head) ELSE head, tail>>

\* os.path.splitext(p) = <<root, ext>>
os_splitext(p) ==
    LET sepIndex == RFind(p, SEP)
        dotIndex == RFind(p, EXTSEP)
    IN  IF /\ dotIndex > sepIndex
           /\ \E k \in (sepIndex + 1)..(dotIndex - 1) : p[k] # EXTSEP
        THEN <<Slice(p, 1, dotIndex - 1), Slice(p, dotIndex, Len(p))>>
        ELSE <<p, <<>>>>

\* os.path.join(a, b)
os_join(a, b) ==
    IF b # <<>> /\ b[1] = SEP THEN b
    ELSE IF a = <<>> \/ a[Len(a)] = SEP THEN a \o b
    ELSE a \o <<SEP>> \o b

RECURSIVE NormComps(_, _, _)
\* the loop of normpath over comps, new_comps accumulated in acc
NormComps(comps, acc, initial_slashes) ==
    IF comps = <<>> THEN acc
    ELSE LET comp == Head(comps)
             rest == Tail(comps)
         IN  IF comp = <<>> \/ comp = <<EXTSEP>>
             THEN NormComps(rest, acc, initial_slashes)
             ELSE IF \/ comp # DOTDOT
                     \/ (initial_slashes = 0 /\ acc = <<>>)
                     \/ (acc # <<>> /\ acc[Len(acc)] = DOTDOT)
                  THEN NormComps(rest, Append(acc, comp), initial_slashes)
                  ELSE IF acc # <<>>
                       THEN NormComps(rest, Slice(acc, 1, Len(acc) - 1), initial_slashes)
                       ELSE NormComps(rest, acc, initial_slashes)

InitialSlashes(path) ==
    IF ~StartsWithAt(path, 1, <<SEP>>) THEN 0
    ELSE IF StartsWithAt(path, 1, <<SEP, SEP>>) /\ ~StartsWithAt(path, 1, <<SEP, SEP, SEP>>)
         THEN 2 ELSE 1

\* '.' components are kept
os_normpath_keepdot(path) ==
    IF path = <<>> THEN <<EXTSEP>>
    ELSE LET n     == InitialSlashes(path)
             comps == SelectSeq(StrSplit(path, SEP), LAMBDA c : c # <<>>)
             body  == StrJoin(comps, SEP)
             out   == [k \in 1..n |-> SEP] \o body
         IN  IF out = <<>> THEN <<EXTSEP>> ELSE out

\* only the first empty or '.' component is dropped
os_normpath_onepass(path) ==
    IF path = <<>> THEN <<EXTSEP>>
    ELSE LET n     == InitialSlashes(path)
             raw   == StrSplit(path, SEP)
             comps == IF n > 0 THEN Slice(raw, n + 1, Len(raw)) ELSE raw
             drop  == {k \in 1..Len(comps) : comps[k] = <<>> \/ comps[k] = <<EXTSEP>>}
             kept  == IF drop = {} THEN comps
                      ELSE LET k == CHOOSE x \in drop : \A y \in drop : x <= y
                           IN  Slice(comps, 1, k - 1) \o Slice(comps, k + 1, Len(comps))
             out   == [k \in 1..n |-> SEP] \o StrJoin(kept, SEP)
         IN  IF out = <<>> THEN <<EXTSEP>> ELSE out

\* os.path.normpath(path)
os_normpath(path) ==
    IF path = <<>> THEN <<EXTSEP>>
    ELSE LET n     == InitialSlashes(path)
             comps == NormComps(StrSplit(path, SEP), <<>>, n)
             out   == [k \in 1..n |-> SEP] \o StrJoin(comps, SEP)
         IN  IF out = <<>> THEN <<EXTSEP>> ELSE out

----------------------------------------------------------------------------
(* Filepath_info                                                           *)

Filepath_info(path) ==
    LET s1 == os_split(path)
        s2 == os_splitext(s1[2])
        s3 == os_split(s1[1])
    IN  [folder |-> s1[1], filename |-> s1[2],
         stem |-> s2[1], extension |-> s2[2],
         bottom_folders |-> s3[1], top_folder |-> s3[2]]

NoInfo == [folder |-> <<>>, filename |-> <<>>, stem |-> <<>>, extension |-> <<>>,
           bottom_folders |-> <<>>, top_folder |-> <<>>]

----------------------------------------------------------------------------
(* sanitize_synctex                                                        *)

RECURSIVE LinesFrom(_, _)
LinesFrom(s, i) ==
    IF i > Len(s) THEN <<>>
    ELSE LET later == {k \in i..Len(s) : s[k] = NEWLINE}
         IN  IF later = {} THEN <<Slice(s, i, Len(s))>>
             ELSE LET k == CHOOSE x \in later : \A y \in later : x <= y
                  IN  <<Slice(s, i, k)>> \o LinesFrom(s, k + 1)

\* "for line in fin": the text cut after each newline, terminators kept
TextLines(text) == LinesFrom(text, 1)

RECURSIVE Concat(_)
\* "for line in newlines: fout.write(line)"
Concat(lines) == IF lines = <<>> THEN <<>> ELSE Head(lines) \o Concat(Tail(lines))

\* the line terminator is stripped before the rewrite and not put back
RewriteLine_strip(line, current_directory, target_directory) ==
    LET bare == IF line # <<>> /\ line[Len(line)] = NEWLINE
                THEN Slice(line, 1, Len(line) - 1) ELSE line
    IN  os_normpath(StrReplace(bare, target_directory, current_directory))

\* os.path.normpath(line.replace(target_directory, current_directory))
RewriteLine(line, current_directory, target_directory) ==
    os_normpath(StrReplace(line, target_directory, current_directory))

\* the list newlines built by the read loop
SanitizedLines(text, current_directory, target_directory) ==
    LET ls == TextLines(text)
    IN  [i \in 1..Len(ls) |-> RewriteLine(ls[i], current_directory, target_directory)]

\* decompressed text of gzfile after sanitize_synctex
SanitizedText(text, current_directory, target_directory) ==
    Concat(SanitizedLines(text, current_directory, target_directory))

----------------------------------------------------------------------------
(* SpecRepair: sanitize_synctex applied to generated mapping files          *)

Tokens == {SERVER_TARGET_DIR, <<"t", "m", "p">>, <<"/">>, <<".">>, <<"a">>, <<NEWLINE>>}

\* fp.bottom_folders of /h/p/n.tex, /h/tmp/p/n.tex, /p/n.tex and p/n.tex
CurrentDirs == { <<"/", "h">>, <<"/", "h", "/", "t", "m", "p">>, <<"/">>, <<>> }

MainIdle ==
    /\ pc = "idle" /\ exitCode = -1 /\ servername = <<>> /\ argpath = <<>>
    /\ cwd = <<>> /\ fp = NoInfo /\ fs = <<>> /\ rfs = <<>> /\ newlines = <<>>
    /\ phases = <<>> /\ localWrites = {} /\ backCopied = {} /\ repairWrites = {}
    /\ fsAfterBack = <<>> /\ donePrinted = FALSE

RepairIdle ==
    /\ gzOrig = <<>> /\ gzOnce = <<>> /\ gzText = <<>> /\ curDir = <<>> /\ runs = 0

PathIdle ==
    /\ pth = <<>> /\ info = NoInfo /\ built = FALSE

InitRepair ==
    /\ MainIdle /\ PathIdle
    /\ \E n \in 0..MaxTokens : \E f \in [1..n -> Tokens] : gzOrig = Concat(f)
    /\ gzText = gzOrig
    /\ gzOnce = <<>>
    /\ curDir \in CurrentDirs
    /\ runs = 0

Repair ==
    /\ runs = 0
    /\ gzText' = SanitizedText(gzText, curDir, SERVER_TARGET_DIR)
    /\ gzOnce' = gzText'
    /\ runs' = 1
    /\ UNCHANGED <<gzOrig, curDir, mainVars, pathVars>>

RepairAgain ==
    /\ runs = 1
    /\ gzText' = SanitizedText(gzText, curDir, SERVER_TARGET_DIR)
    /\ runs' = 2
    /\ UNCHANGED <<gzOrig, gzOnce, curDir, mainVars, pathVars>>

NextRepair == Repair \/ RepairAgain

SpecRepair == InitRepair /\ [][NextRepair]_vars

----------------------------------------------------------------------------
(* SpecPath: Filepath_info applied to generated absolute paths              *)

PathAlphabet == {SEP, EXTSEP, "a"}

InitPath ==
    /\ MainIdle /\ RepairIdle
    /\ \E n \in 1..MaxPathLen : \E f \in [1..n -> PathAlphabet] :
          /\ f[1] = SEP
          /\ pth = f
    /\ info = NoInfo
    /\ built = FALSE

Decompose ==
    /\ ~built
    /\ info' = Filepath_info(pth)
    /\ built' = TRUE
    /\ UNCHANGED <<pth, mainVars, repVars>>

NextPath == Decompose

SpecPath == InitPath /\ [][NextPath]_vars

----------------------------------------------------------------------------
(* The driver main(): file trees, rsync, ssh                               *)

\* file contents: kind is absent, data, gz, badgz or undecodable
Absent      == [kind |-> "absent", text |-> <<>>]
Data(v)     == [kind |-> "data", text |-> <<v>>]
Gz(t)       == [kind |-> "gz", text |-> t]
BadGz       == [kind |-> "badgz", text |-> <<>>]
Undecodable == [kind |-> "undecodable", text |-> <<>>]

\* exit statuses an external tool can return
ReturnCodes == {0, 1, 12}

\* the documents main() is run on, and the directories it is run from
DocPaths == { <<"/", "h", "/", "p", "/", "n", ".", "t", "e", "x">> }
Cwds     == { <<"/", "h", "/", "p">>, <<"/", "h", "/", "q">> }
Servers  == { <<>>, <<"s">> }

TexName    == <<"n", ".", "t", "e", "x">>
HiddenName == <<".", "x">>
PdfName    == <<"n", ".", "p", "d", "f">>
GzName     == <<"n">> \o SYNCTEX_SUFFIX
ProjNames  == {TexName, HiddenName, PdfName, GzName}

LocalPaths ==
    {os_join(os_split(d)[1], n) : d \in DocPaths, n \in ProjNames}
        \cup {os_join(c, GzName) : c \in Cwds}

RemoteDir(top_folder) == os_join(SERVER_TARGET_DIR, top_folder)

RemotePaths ==
    {os_join(RemoteDir(os_split(os_split(d)[1])[2]), n) : d \in DocPaths, n \in ProjNames}

\* rsync --exclude patterns: a character, "*" or the class "[!.]"
FORWARD_EXCLUDE == <<".", "[!.]", "*">>
BACK_EXCLUDE    == <<"(", ".", "[!.]", "*", "|", "*", ".", "t", "e", "x", ")">>

RECURSIVE GlobMatch(_, _, _, _)
\* rsync wildcard matching of a name against a pattern without separators:
\* "*" any run of characters, "[!.]" one character other than '.', every
\* other character (parentheses and '|' included) itself
GlobMatch(pat, i, name, j) ==
    IF i > Len(pat) THEN j > Len(name)
    ELSE IF pat[i] = "*"
         THEN \E k \in j..(Len(name) + 1) : GlobMatch(pat, i + 1, name, k)
         ELSE IF j > Len(name) THEN FALSE
         ELSE IF pat[i] = "[!.]"
              THEN name[j] # "." /\ GlobMatch(pat, i + 1, name, j + 1)
              ELSE name[j] = pat[i] /\ GlobMatch(pat, i + 1, name, j + 1)

Excluded(pat, name) == GlobMatch(pat, 1, name, 1)

\* what latexmk -synctex=1 writes on the server for fp: one record per input
\* file, with the absolute remote path
BuiltSynctex(f) ==
    os_join(RemoteDir(f.top_folder), f.filename) \o <<":", "1", NEWLINE>>

StaleSynctex == <<"/", "t", "m", "p", "/", "q", NEWLINE>>

\* the assert of sync_forward is skipped
ForwardNext_noassert(rc) == "build"

\* sync_forward line 40: the assert lets main() go on only with status 0
ForwardNext(rc) == IF rc = 0 THEN "build" ELSE "exit"

\* main() goes on to sync back whatever the build returned
BuildNext_always(rc) == "back"

\* main() lines 147-152: sys.exit(1) on a nonzero build status
BuildNext(rc) == IF rc # 0 THEN "exit" ELSE "back"

\* sync_back line 53
BackNext(rc) == IF rc = 0 THEN "repair_read" ELSE "exit"

\* fout is opened "wt" before the file is read
FsAfterRead_truncated(fsys, path) == [fsys EXCEPT ![path] = Gz(<<>>)]

\* sanitize_synctex lines 62-66: reading does not touch the tree, fout is
\* opened only after the read loop
FsAfterRead(fsys, path) == fsys

InitMain ==
    /\ RepairIdle /\ PathIdle
    /\ pc = "start"
    /\ exitCode = -1
    /\ servername \in Servers
    /\ argpath \in DocPaths
    /\ cwd \in Cwds
    /\ fp = NoInfo
    /\ \E other \in {Absent, Gz(StaleSynctex), BadGz, Undecodable} :
          fs = [q \in LocalPaths |->
                  IF q \in {os_join(os_split(argpath)[1], n) : n \in {TexName, HiddenName}}
                  THEN Data("0")
                  ELSE IF q \in {os_join(c, GzName) : c \in Cwds} /\ q # os_join(os_split(argpath)[1], GzName)
                       THEN other
                       ELSE Absent]
    /\ rfs = [q \in RemotePaths |-> Absent]
    /\ newlines = <<>>
    /\ phases = <<>>
    /\ localWrites = {}
    /\ backCopied = {}
    /\ repairWrites = {}
    /\ fsAfterBack = <<>>
    /\ donePrinted = FALSE

\* main() lines 111-116
ParseArgs ==
    /\ pc = "start"
    /\ fp' = Filepath_info(argpath)
    /\ IF servername = <<>>
       THEN /\ pc' = "exit"          \* "..." + server raises TypeError
            /\ exitCode' = 1
       ELSE /\ pc' = "forward"
            /\ exitCode' = exitCode
    /\ UNCHANGED <<servername, argpath, cwd, fs, rfs, newlines, phases, localWrites,
                   backCopied, repairWrites, fsAfterBack, donePrinted, repVars, pathVars>>

\* names of the local folder that rsync would send
ForwardEligible ==
    {n \in ProjNames : /\ fs[os_join(fp.folder, n)].kind # "absent"
                       /\ ~Excluded(FORWARD_EXCLUDE, n)}

\* main() line 117: sync_forward(fp.folder, SERVER_TARGET_DIR, server)
SyncForward ==
    /\ pc = "forward"
    /\ \E rc \in ReturnCodes :
       \E sent \in SUBSET ForwardEligible :
          /\ rc = 0 => sent = ForwardEligible
          /\ rfs' = [q \in RemotePaths |->
                       IF \E n \in sent : q = os_join(RemoteDir(os_split(fp.folder)[2]), n)
                       THEN fs[os_join(fp.folder,
                                CHOOSE n \in sent : q = os_join(RemoteDir(os_split(fp.folder)[2]), n))]
                       ELSE rfs[q]]
          /\ phases' = Append(phases, [name |-> "forward", status |-> IF rc = 0 THEN "ok" ELSE "fail"])
          /\ pc' = ForwardNext(rc)
          /\ exitCode' = IF pc' = "exit" THEN 1 ELSE exitCode
    /\ UNCHANGED <<servername, argpath, cwd, fp, fs, newlines, localWrites,
                   backCopied, repairWrites, fsAfterBack, donePrinted, repVars, pathVars>>

\* main() lines 120-152: ssh server "cd /tmp/<top> && latexmk ... <filename>"
RemoteBuild ==
    /\ pc = "build"
    /\ \E rc \in ReturnCodes :
       \E pdf \in BOOLEAN :
       \E syn \in {Absent, Gz(BuiltSynctex(fp))} :
          /\ rc = 0 => (pdf /\ syn # Absent)
          /\ rc # 0 => syn = Absent
          /\ rfs' = [q \in RemotePaths |->
                       IF q = os_join(RemoteDir(fp.top_folder), PdfName) /\ pdf THEN Data("1")
                       ELSE IF q = os_join(RemoteDir(fp.top_folder), GzName) /\ syn # Absent THEN syn
                       ELSE rfs[q]]
          /\ phases' = Append(phases, [name |-> "build", status |-> IF rc = 0 THEN "ok" ELSE "fail"])
          /\ pc' = BuildNext(rc)
          /\ exitCode' = IF pc' = "exit" THEN 1 ELSE exitCode
    /\ UNCHANGED <<servername, argpath, cwd, fp, fs, newlines, localWrites,
                   backCopied, repairWrites, fsAfterBack, donePrinted, repVars, pathVars>>

\* the author saves the document while the run is between the two transfers
LocalEdit ==
    /\ pc \in {"build", "back"}
    /\ fs[argpath] = Data("0")
    /\ fs' = [fs EXCEPT ![argpath] = Data("2")]
    /\ UNCHANGED <<pc, exitCode, servername, argpath, cwd, fp, rfs, newlines, phases, localWrites,
                   backCopied, repairWrites, fsAfterBack, donePrinted, repVars, pathVars>>

\* where rsync puts name n of server:/tmp/<top> under loc_filepath
BackDest(n) == os_join(os_join(fp.bottom_folders, fp.top_folder), n)

\* names of the remote folder that rsync would fetch: present, not excluded,
\* and different from the local copy
BackEligible ==
    {n \in ProjNames : /\ rfs[os_join(RemoteDir(fp.top_folder), n)].kind # "absent"
                       /\ ~Excluded(BACK_EXCLUDE, n)
                       /\ fs[BackDest(n)] # rfs[os_join(RemoteDir(fp.top_folder), n)]}

\* main() line 154: sync_back(join(SERVER_TARGET_DIR, fp.top_folder), fp.bottom_folders, server)
SyncBack ==
    /\ pc = "back"
    /\ \E rc \in ReturnCodes :
       \E got \in SUBSET BackEligible :
          /\ rc = 0 => got = BackEligible
          /\ fs' = [q \in LocalPaths |->
                      IF \E n \in got : q = BackDest(n)
                      THEN rfs[os_join(RemoteDir(fp.top_folder), CHOOSE n \in got : q = BackDest(n))]
                      ELSE fs[q]]
          /\ backCopied' = backCopied \cup got
          /\ localWrites' = localWrites \cup {BackDest(n) : n \in got}
          /\ phases' = Append(phases, [name |-> "back", status |-> IF rc = 0 THEN "ok" ELSE "fail"])
          /\ pc' = BackNext(rc)
          /\ exitCode' = IF pc' = "exit" THEN 1 ELSE exitCode
          /\ fsAfterBack' = fs'
    /\ UNCHANGED <<servername, argpath, cwd, fp, rfs, newlines,
                   repairWrites, donePrinted, repVars, pathVars>>

\* main() line 157; the relative name is resolved against the working directory
OpenedGzPath == os_join(cwd, fp.stem \o SYNCTEX_SUFFIX)

\* sanitize_synctex lines 62-66: open for reading and read every line
SanitizeRead ==
    /\ pc = "repair_read"
    /\ fs' = FsAfterRead(fs, OpenedGzPath)
    /\ IF fs[OpenedGzPath].kind = "gz"
       THEN /\ newlines' = SanitizedLines(fs[OpenedGzPath].text, fp.bottom_folders, SERVER_TARGET_DIR)
            /\ phases' = Append(phases, [name |-> "repair", status |-> "running"])
            /\ pc' = "repair_write"
            /\ exitCode' = exitCode
       ELSE /\ newlines' = newlines   \* FileNotFoundError, BadGzipFile, UnicodeDecodeError
            /\ phases' = Append(phases, [name |-> "repair", status |-> "fail"])
            /\ pc' = "exit"
            /\ exitCode' = 1
    /\ UNCHANGED <<servername, argpath, cwd, fp, rfs, localWrites,
                   backCopied, repairWrites, fsAfterBack, donePrinted, repVars, pathVars>>

\* sanitize_synctex lines 68-73 and main() line 161
SanitizeWrite ==
    /\ pc = "repair_write"
    /\ fs' = [fs EXCEPT ![OpenedGzPath] = Gz(Concat(newlines))]
    /\ repairWrites' = repairWrites \cup {OpenedGzPath}
    /\ localWrites' = localWrites \cup {OpenedGzPath}
    /\ phases' = [phases EXCEPT ![Len(phases)].status = "ok"]
    /\ donePrinted' = TRUE
    /\ pc' = "exit"
    /\ exitCode' = 0
    /\ UNCHANGED <<servername, argpath, cwd, fp, rfs, newlines,
                   backCopied, fsAfterBack, repVars, pathVars>>

Next ==
    \/ ParseArgs
    \/ SyncForward
    \/ RemoteBuild
    \/ LocalEdit
    \/ SyncBack
    \/ SanitizeRead
    \/ SanitizeWrite

Spec == InitMain /\ [][Next]_vars

----------------------------------------------------------------------------
(* Vocabulary of the properties                                            *)

Occurs(s, t) == \E i \in 1..Len(s) : StartsWithAt(s, i, t)

RECURSIVE CountFrom(_, _, _)
CountFrom(s, i, t) ==
    IF i > Len(s) THEN 0
    ELSE IF StartsWithAt(s, i, t) THEN 1 + CountFrom(s, i + Len(t), t)
    ELSE CountFrom(s, i + 1, t)

\* number of non-overlapping occurrences of t in s, leftmost first
CountOcc(s, t) == CountFrom(s, 1, t)

Min2(a, b) == IF a < b THEN a ELSE b

\* c and t cannot share characters of one occurrence: c is not empty, neither
\* contains the other, and no end of one is a beginning of the other
OverlapFree(c, t) ==
    /\ c # <<>>
    /\ ~Occurs(c, t)
    /\ ~Occurs(t, c)
    /\ \A k \in 1..Min2(Len(c), Len(t)) :
          /\ Slice(c, Len(c) - k + 1, Len(c)) # Slice(t, 1, k)
          /\ Slice(c, 1, k) # Slice(t, Len(t) - k + 1, Len(t))

EndsWithNewline(s) == s # <<>> /\ s[Len(s)] = NEWLINE

StripNewline(s) == IF EndsWithNewline(s) THEN Slice(s, 1, Len(s) - 1) ELSE s

\* the segments between separators that are neither empty nor '.'
ProperSegs(s) == SelectSeq(StrSplit(s, SEP), LAMBDA c : c # <<>> /\ c # <<EXTSEP>>)

HasSeg(s, seg) == \E i \in 1..Len(StrSplit(s, SEP)) : StrSplit(s, SEP)[i] = seg

\* the substituted text of line i of the original file
SubstLine(i) == StrReplace(TextLines(gzOrig)[i], SERVER_TARGET_DIR, curDir)

\* line i of the file as written by the first repair
WrittenLine(i) == TextLines(gzOnce)[i]

----------------------------------------------------------------------------
(* C3 *)

\* C3 (as stated): after sanitize_synctex the rewritten file contains zero
\* occurrences of the remote-root string, for every file and every local
\* bottom-folder string.
C3_NoRemoteRootRemains ==
    runs >= 1 => ~Occurs(gzOnce, SERVER_TARGET_DIR)

\* C3 (amended): when the local bottom-folder string does not overlap the
\* remote root /tmp, every occurrence of the remote root in a line is turned
\* into the local string and the rewritten file contains no occurrence of the
\* remote root.
C3_ReplacedWhenOverlapFree ==
    (runs >= 1 /\ OverlapFree(curDir, SERVER_TARGET_DIR)) =>
        /\ ~Occurs(gzOnce, SERVER_TARGET_DIR)
        /\ \A i \in 1..Len(TextLines(gzOrig)) :
              CountOcc(SubstLine(i), curDir)
                  >= CountOcc(TextLines(gzOrig)[i], SERVER_TARGET_DIR)

C3_Witness ==
    /\ runs >= 1
    /\ OverlapFree(curDir, SERVER_TARGET_DIR)
    /\ CountOcc(gzOrig, SERVER_TARGET_DIR) >= 2
    /\ ~Occurs(gzOnce, SERVER_TARGET_DIR)
    /\ CountOcc(gzOnce, curDir) >= 2

----------------------------------------------------------------------------
(* C4 *)

\* C4 (as stated): a second sanitize_synctex with the same parameters leaves
\* the decompressed content identical, for every file and parameter pair.
C4_SecondRepairIsNoOp ==
    runs = 2 => gzText = gzOnce

\* C4 (amended): a second sanitize_synctex leaves the content identical
\* whenever the once-repaired file contains no occurrence of the remote root.
C4_NoOpWhenRootGone ==
    (runs = 2 /\ ~Occurs(gzOnce, SERVER_TARGET_DIR)) => gzText = gzOnce

C4_Witness ==
    /\ runs = 2
    /\ Occurs(gzOrig, SERVER_TARGET_DIR)
    /\ ~Occurs(gzOnce, SERVER_TARGET_DIR)
    /\ HasSeg(StripNewline(gzOrig), <<EXTSEP>>)
    /\ gzText = gzOnce

----------------------------------------------------------------------------
(* C5 *)

\* C5: sanitize_synctex is line-preserving: the rewritten file has as many
\* lines as the file read, and its i-th line is the rewrite of the i-th line
\* read (first and second repair alike).
C5_LinePreserving ==
    /\ runs >= 1 =>
          /\ Len(TextLines(gzOnce)) = Len(TextLines(gzOrig))
          /\ \A i \in 1..Len(TextLines(gzOrig)) :
                TextLines(gzOnce)[i]
                    = os_normpath(StrReplace(TextLines(gzOrig)[i], SERVER_TARGET_DIR, curDir))
    /\ runs = 2 =>
          /\ Len(TextLines(gzText)) = Len(TextLines(gzOnce))
          /\ \A i \in 1..Len(TextLines(gzOnce)) :
                TextLines(gzText)[i]
                    = os_normpath(StrReplace(TextLines(gzOnce)[i], SERVER_TARGET_DIR, curDir))

\* three lines, the last without a newline, one of them only separators and dots
C5_Witness ==
    /\ runs >= 1
    /\ Len(TextLines(gzOrig)) >= 2
    /\ ~EndsWithNewline(gzOrig)
    /\ \E i \in 1..Len(TextLines(gzOrig)) :
          ProperSegs(StripNewline(TextLines(gzOrig)[i])) = <<>>
    /\ gzOnce # gzOrig
    /\ Len(TextLines(gzOnce)) = Len(TextLines(gzOrig))

----------------------------------------------------------------------------
(* C7 *)

----------------------------------------------------------------------------
(* C6 *)

\* the part of p in front of its last separator run (all of the run when
\* there is nothing else in front)
HeadOf(p) ==
    LET h == Slice(p, 1, RFind(p, SEP))
    IN  IF AllSep(h) THEN h ELSE RStripSep(h)

\* the last separator of p is not the end of a longer run that follows a name
SingleSepBeforeTail(p) ==
    LET h == Slice(p, 1, RFind(p, SEP))
    IN  AllSep(h) \/ Len(h) < 2 \/ h[Len(h) - 1] # SEP

Reconstructs ==
    /\ info.folder = os_join(info.bottom_folders, info.top_folder)
    /\ info.filename = info.stem \o info.extension
    /\ os_join(info.folder, info.filename) = pth

\* C6 (as stated): for every absolute path, folder = join(bottom_folders,
\* top_folder), filename = stem + extension and join(folder, filename) = P,
\* repeated separators included.
C6_ReconstructsAlways ==
    built => Reconstructs

\* C6 (amended): the three equalities hold for every absolute path in which
\* neither the file name nor the top folder comes after a run of two or more
\* separators that follows a name.
C6_ReconstructsSingleSep ==
    (built /\ SingleSepBeforeTail(pth) /\ SingleSepBeforeTail(HeadOf(pth))) => Reconstructs

\* a dot-file under a folder, a trailing separator, a root-level file
C6_Witness ==
    /\ built
    /\ SingleSepBeforeTail(pth) /\ SingleSepBeforeTail(HeadOf(pth))
    /\ pth = <<SEP, "a", SEP, EXTSEP, "a">>
    /\ info.folder = <<SEP, "a">> /\ info.stem = <<EXTSEP, "a">> /\ info.extension = <<>>
    /\ info.bottom_folders = <<SEP>> /\ info.top_folder = <<"a">>

----------------------------------------------------------------------------
(* C1, C2: the phases of main()                                            *)

PhaseOrder == <<"forward", "build", "back", "repair">>

Ran(name) == \E i \in 1..Len(phases) : phases[i].name = name

BuildFailed == Len(phases) >= 2 /\ phases[2].name = "build" /\ phases[2].status = "fail"

\* C1: when the remote build returns a nonzero status, sync_back and
\* sanitize_synctex are never executed, the program writes no local file, and
\* the process exits with code 1.
C1_BuildFailureSkipsBackAndRepair ==
    BuildFailed =>
        /\ ~Ran("back") /\ ~Ran("repair")
        /\ localWrites = {} /\ repairWrites = {} /\ backCopied = {}
        /\ fs[os_join(fp.folder, PdfName)] = Absent
        /\ fs[os_join(fp.folder, GzName)] = Absent
        /\ pc = "exit" /\ exitCode = 1
        /\ ~donePrinted

C1_Witness ==
    /\ BuildFailed
    /\ phases[1].status = "ok"
    /\ rfs[os_join(RemoteDir(fp.top_folder), PdfName)] = Data("1")
    /\ pc = "exit" /\ exitCode = 1

\* C2: the phases run at most once each, in the order forward transfer,
\* remote build, back transfer, repair; a phase starts only after every
\* earlier one completed successfully; a failed phase ends the run with a
\* nonzero status; the process exits 0 only after all four succeeded.
C2_PhasesInOrder ==
    /\ Len(phases) <= 4
    /\ \A i \in 1..Len(phases) :
          /\ phases[i].name = PhaseOrder[i]
          /\ i < Len(phases) => phases[i].status = "ok"
          /\ phases[i].status = "fail" => (pc = "exit" /\ exitCode # 0)
          /\ phases[i].status = "running" => pc = "repair_write"
    /\ pc = "build" => Len(phases) = 1
    /\ pc = "back" => Len(phases) = 2
    /\ pc = "repair_read" => Len(phases) = 3
    /\ exitCode = 0 =>
          /\ pc = "exit"
          /\ Len(phases) = 4
          /\ \A i \in 1..4 : phases[i].status = "ok"

C2_Witness ==
    /\ pc = "exit" /\ exitCode = 0
    /\ Len(phases) = 4
    /\ \A i \in 1..4 : phases[i].status = "ok"
    /\ donePrinted

----------------------------------------------------------------------------
(* C8 *)

\* <bottom>/<top>/<stem>.synctex.gz
PulledGzPath == os_join(os_join(fp.bottom_folders, fp.top_folder), fp.stem \o SYNCTEX_SUFFIX)

\* C8: after a fully successful run, from any working directory, the mapping
\* file pulled to <bottom>/<top>/<stem>.synctex.gz is the file that was
\* repaired: its record /tmp/<top>/<file>:1 now reads <bottom>/<top>/<file>:1,
\* and the repair step wrote no other local file.
C8_RepairsThePulledFile ==
    (pc = "exit" /\ exitCode = 0) =>
        /\ repairWrites = {PulledGzPath}
        /\ fs[PulledGzPath] = Gz(argpath \o <<":", "1", NEWLINE>>)

----------------------------------------------------------------------------
(* C9 *)

IsHidden(n) == Len(n) >= 2 /\ n[1] = "." /\ n[2] # "."

IsTex(n) == Len(n) >= 4 /\ Slice(n, Len(n) - 3, Len(n)) = <<".", "t", "e", "x">>

\* C9: sync_back copies no entry whose name starts with '.' and no *.tex file
\* from the remote tree, so no local .tex file is overwritten by the server's
\* copy.
C9_BackExcludesHiddenAndTex ==
    /\ \A n \in backCopied : ~IsHidden(n) /\ ~IsTex(n)
    /\ \A q \in localWrites : ~IsTex(os_split(q)[2])

----------------------------------------------------------------------------
(* C10 *)

RepairFailed == Len(phases) = 4 /\ phases[4].status = "fail"

\* C10: if sanitize_synctex cannot read the mapping file (missing, not a
\* gzip stream, not decodable), it fails before the file is opened for
\* writing: the local tree is exactly as the back transfer left it, nothing
\* is written, and the run ends with a nonzero status without printing Done.
C10_FailedReadLeavesFile ==
    /\ RepairFailed =>
          /\ fs = fsAfterBack
          /\ repairWrites = {}
          /\ localWrites = {BackDest(n) : n \in backCopied}
          /\ pc = "exit" /\ exitCode # 0 /\ exitCode # -1
          /\ ~donePrinted
    /\ pc = "repair_write" => fs = fsAfterBack

C10_Witness ==
    /\ RepairFailed
    /\ fs[OpenedGzPath] = BadGz
    /\ fs[os_join(fp.folder, PdfName)] = Data("1")
    /\ exitCode = 1

====
